---- MODULE Spec2Model ----
(***************************************************************************)
(* The parser-combinator engine of src/parser: the Parser capability, the  *)
(* ParserError values and the combinators of combinators.rs, applied to    *)
(* leaf parsers and inputs drawn from bounded sets.                        *)
(*                                                                         *)
(* A parser is a function from the input it is given to its Result.  The   *)
(* combinators only ever hand a sub-parser the original input or a         *)
(* remainder some sub-parser returned, so a parser is represented by its   *)
(* table over the suffixes of the original input.  The leaf parsers are    *)
(* ALL tables that honour the Parser contract (a success returns a suffix  *)
(* of the input it was given, a failure reports that input), which covers  *)
(* every composite parser that terminates, the ones that succeed without   *)
(* consuming anything included.  Since a table may answer each suffix as   *)
(* it likes, the characters of the input carry no information of their     *)
(* own; inputs are the strings e^n.                                        *)
(***************************************************************************)
EXTENDS Integers, Sequences, FiniteSets, TLC

VARIABLES
    comb,     \* the combinator whose parser is being run
    input,    \* the input handed to parse
    p1,       \* first (or only) sub-parser
    p2,       \* second sub-parser
    map_fn,   \* map's closure
    pred,     \* predicate's closure
    start,    \* repeat_range's lower bound
    stop,     \* repeat_range's upper bound, an Option<usize>
    pc,       \* position inside the running parse
    cur,      \* repeat_range: the `mut input` of the closure
    result,   \* repeat_range: the Vec collected so far
    r1,       \* either: the value of p1.parse(input); repeat_range: the Ok((res, rem)) the `while let` matched
    r2,       \* either: the value of p2.parse(input)
    res       \* what parse returned

vars == <<comb, input, p1, p2, map_fn, pred, start, stop, pc, cur, result, r1, r2, res>>

(* ------------------------------ bounds -------------------------------- *)
MaxLen == 2
RepMaxLen == 3
MaxCount == 2

(* Vec::len is followed exactly up to LenCap, which is above every start,  *)
(* every stop and every input length: past it the two comparisons of       *)
(* repeat_range (result.len() < stp, start <= result.len()) cannot change. *)
LenCap == (IF MaxCount > RepMaxLen THEN MaxCount ELSE RepMaxLen) + 2

(* ------------------------------ values -------------------------------- *)
Unit == [k |-> "unit"]
Leaf(c) == [k |-> "leaf", c |-> c]
Tuple(a, b) == [k |-> "tuple", fst |-> a, snd |-> b]
Vec(items) == [k |-> "vec", items |-> items]

None == [some |-> FALSE, v |-> 0]
Some(n) == [some |-> TRUE, v |-> n]

Error(s) == [kind |-> "Error", s |-> s]
RepeatUpper(n) == [kind |-> "RepeatUpper", n |-> n]
RepeatLower(n) == [kind |-> "RepeatLower", n |-> n]
UnexpectedMatch(s) == [kind |-> "UnexpectedMatch", s |-> s]

Ok(v, rem) == [tag |-> "Ok", val |-> v, rem |-> rem]
Err(e) == [tag |-> "Err", err |-> e]
IsOk(r) == r.tag = "Ok"
IsErr(r) == r.tag = "Err"

Panic == [tag |-> "Panic"]
NoResult == [tag |-> "None"]
Unused == [k |-> "unused"]

(* ------------------------------ inputs -------------------------------- *)
Inputs(n) == UNION {[1..l -> {"e"}] : l \in 0..n}
Suffixes(s) == {SubSeq(s, i, Len(s)) : i \in 1..(Len(s) + 1)}
IsSuffix(t, s) == t \in Suffixes(s)

(* What a leaf parser may answer on input t: any suffix of t with its      *)
(* value c, the error that reports t, or one of the errors `bare` that     *)
(* carry no remainder.                                                     *)
LeafResults(t, c, bare) ==
    {Ok(Leaf(c), r) : r \in Suffixes(t)} \cup {Err(Error(t))} \cup {Err(e) : e \in bare}

(* Every table over the suffixes of s that answers each suffix t with one  *)
(* of LeafResults(t, c, bare).                                             *)
RECURSIVE LeafParsers(_, _, _)
LeafParsers(s, c, bare) ==
    IF s = <<>>
    THEN {[t \in {<<>>} |-> r] : r \in LeafResults(<<>>, c, bare)}
    ELSE {[t \in Suffixes(s) |-> IF t = s THEN r ELSE q[t]] :
            r \in LeafResults(s, c, bare), q \in LeafParsers(Tail(s), c, bare)}

FirstParsers(s) == LeafParsers(s, "x", {RepeatUpper(1)})
SecondParsers(s) == LeafParsers(s, "y", {})

UnimplementedParser(s) == [t \in Suffixes(s) |-> Panic]

Values1 == {Leaf("x")}
MapFns == [Values1 -> {Leaf("x"), Leaf("m")}]
Preds == [Values1 -> BOOLEAN]
Counts == 0..MaxCount
Stops == {None} \cup {Some(n) : n \in Counts}

(* ---------------------------- combinators ----------------------------- *)
map(parser, fn) ==
    [inp \in DOMAIN parser |->
        LET r == parser[inp]
        IN  IF IsOk(r) THEN Ok(fn[r.val], r.rem) ELSE r]

pair(q1, q2) ==
    [inp \in DOMAIN q1 |->
        LET a == q1[inp]
        IN  IF IsOk(a)
            THEN LET b == q2[a.rem]
                 IN  IF IsOk(b) THEN Ok(Tuple(a.val, b.val), b.rem) ELSE b
            ELSE a]

BaseValues == {Unit, Leaf("x"), Leaf("y")}
Tuples == {Tuple(a, b) : a \in BaseValues, b \in BaseValues}
TakeFirst == [v \in Tuples |-> v.fst]
TakeSecond == [v \in Tuples |-> v.snd]

left(q1, q2) == map(pair(q1, q2), TakeFirst)

right(q1, q2) == map(pair(q1, q2), TakeSecond)

predicate(parser, pr) ==
    [inp \in DOMAIN parser |->
        LET r == parser[inp]
        IN  IF IsOk(r)
            THEN IF pr[r.val] THEN Ok(r.val, r.rem) ELSE Err(Error(inp))
            ELSE r]

and_then(p, f) ==
    [inp \in DOMAIN p |->
        LET a == p[inp]
        IN  IF IsOk(a) THEN f[a.val][a.rem] ELSE a]

(* not with the test the wrong way round (is_ok for is_err). *)
not_inverted(p) ==
    [inp \in DOMAIN p |->
        IF IsOk(p[inp]) THEN Ok(Unit, inp) ELSE Err(UnexpectedMatch(inp))]

not(p) ==
    [inp \in DOMAIN p |->
        IF ~IsOk(p[inp]) THEN Ok(Unit, inp) ELSE Err(UnexpectedMatch(inp))]

(* not_but keeping the lookahead's side of the pair (left for right). *)
not_but_left(q1, q2) == left(not(q1), q2)

not_but(q1, q2) == right(not(q1), q2)

(* The loop test with the upper bound off by one (<= for <). *)
LoopCond_inclusive ==
    LET r == p1[cur]
    IN  IF IsOk(r)
        THEN IF (~stop.some) \/ Len(result) <= stop.v
             THEN r
             ELSE Err(RepeatUpper(stop.v))
        ELSE r

(* The value the `while let` of repeat_range matches against Ok: p's       *)
(* result, turned into Err(RepeatUpper) when stop is reached.              *)
LoopCond ==
    LET r == p1[cur]
    IN  IF IsOk(r)
        THEN IF (~stop.some) \/ Len(result) < stop.v
             THEN r
             ELSE Err(RepeatUpper(stop.v))
        ELSE r

Push(vec, v) == IF Len(vec) < LenCap THEN Append(vec, v) ELSE vec

(* ------------------------------- Init --------------------------------- *)
Idle ==
    /\ pc = "call"
    /\ cur = input
    /\ result = <<>>
    /\ r1 = NoResult
    /\ r2 = NoResult
    /\ res = NoResult

InitOne(n) ==
    /\ comb \in {"map", "predicate", "not"}
    /\ input \in Inputs(n)
    /\ p1 \in FirstParsers(input)
    /\ p2 = Unused
    /\ IF comb = "map" THEN map_fn \in MapFns ELSE map_fn = Unused
    /\ IF comb = "predicate" THEN pred \in Preds ELSE pred = Unused
    /\ start = 0
    /\ stop = None
    /\ Idle

InitTwo(n) ==
    /\ comb \in {"pair", "left", "right", "and_then", "either", "not_but"}
    /\ input \in Inputs(n)
    /\ p1 \in FirstParsers(input)
    /\ p2 \in SecondParsers(input)
            \cup (IF comb = "either" THEN {UnimplementedParser(input)} ELSE {})
    /\ map_fn = Unused
    /\ pred = Unused
    /\ start = 0
    /\ stop = None
    /\ Idle

InitRepeat(n) ==
    /\ comb = "repeat_range"
    /\ input \in Inputs(n)
    /\ p1 \in FirstParsers(input)
    /\ p2 = Unused
    /\ map_fn = Unused
    /\ pred = Unused
    /\ start \in Counts
    /\ stop \in Stops
    /\ Idle

Init == InitOne(MaxLen) \/ InitTwo(MaxLen) \/ InitRepeat(MaxLen)

(* ------------------------------ actions ------------------------------- *)
Return(r) ==
    /\ res' = r
    /\ pc' = "done"
    /\ UNCHANGED <<comb, input, p1, p2, map_fn, pred, start, stop, cur, result, r1, r2>>

Map == pc = "call" /\ comb = "map" /\ Return(map(p1, map_fn)[input])

Pair == pc = "call" /\ comb = "pair" /\ Return(pair(p1, p2)[input])

Left == pc = "call" /\ comb = "left" /\ Return(left(p1, p2)[input])

Right == pc = "call" /\ comb = "right" /\ Return(right(p1, p2)[input])

Predicate == pc = "call" /\ comb = "predicate" /\ Return(predicate(p1, pred)[input])

AndThen ==
    /\ pc = "call"
    /\ comb = "and_then"
    /\ Return(and_then(p1, [v \in Values1 |-> p2])[input])

Not == pc = "call" /\ comb = "not" /\ Return(not(p1)[input])

NotBut == pc = "call" /\ comb = "not_but" /\ Return(not_but(p1, p2)[input])

(* either: `p1.parse(input).or(p2.parse(input))`.  The receiver is         *)
(* evaluated, then the argument, then Result::or is called.                *)
EitherFirst ==
    /\ pc = "call"
    /\ comb = "either"
    /\ r1' = p1[input]
    /\ pc' = "either_arg"
    /\ UNCHANGED <<comb, input, p1, p2, map_fn, pred, start, stop, cur, result, r2, res>>

EitherSecond ==
    /\ pc = "either_arg"
    /\ r2' = p2[input]
    /\ pc' = IF p2[input] = Panic THEN "panicked" ELSE "either_or"
    /\ UNCHANGED <<comb, input, p1, p2, map_fn, pred, start, stop, cur, result, r1, res>>

(* Result::or with its operands exchanged. *)
EitherOr_swapped ==
    /\ pc = "either_or"
    /\ res' = IF IsOk(r2) THEN r2 ELSE r1
    /\ pc' = "done"
    /\ UNCHANGED <<comb, input, p1, p2, map_fn, pred, start, stop, cur, result, r1, r2>>

EitherOr ==
    /\ pc = "either_or"
    /\ res' = IF IsOk(r1) THEN r1 ELSE r2
    /\ pc' = "done"
    /\ UNCHANGED <<comb, input, p1, p2, map_fn, pred, start, stop, cur, result, r1, r2>>

(* repeat_range: the `while let` test, the loop body, the code after the   *)
(* loop.                                                                   *)
RepeatTest ==
    /\ pc = "call"
    /\ comb = "repeat_range"
    /\ IsOk(LoopCond)
    /\ r1' = LoopCond
    /\ pc' = "body"
    /\ UNCHANGED <<comb, input, p1, p2, map_fn, pred, start, stop, cur, result, r2, res>>

RepeatBody ==
    /\ pc = "body"
    /\ result' = Push(result, r1.val)
    /\ cur' = r1.rem
    /\ r1' = NoResult
    /\ pc' = "call"
    /\ UNCHANGED <<comb, input, p1, p2, map_fn, pred, start, stop, r2, res>>

(* The code after the loop returning the input seen on entry. *)
RepeatReturn_restoring ==
    /\ pc = "call"
    /\ comb = "repeat_range"
    /\ ~IsOk(LoopCond)
    /\ res' = IF start <= Len(result) THEN Ok(Vec(result), input) ELSE Err(RepeatLower(start))
    /\ pc' = "done"
    /\ UNCHANGED <<comb, input, p1, p2, map_fn, pred, start, stop, cur, result, r1, r2>>

(* The code after the loop handing on the error that ended the loop. *)
RepeatReturn_propagating ==
    /\ pc = "call"
    /\ comb = "repeat_range"
    /\ ~IsOk(LoopCond)
    /\ res' = IF LoopCond.err.kind = "RepeatUpper"
              THEN LoopCond
              ELSE IF start <= Len(result) THEN Ok(Vec(result), cur) ELSE Err(RepeatLower(start))
    /\ pc' = "done"
    /\ UNCHANGED <<comb, input, p1, p2, map_fn, pred, start, stop, cur, result, r1, r2>>

(* The code after the loop accepting a full Vec whatever start is. *)
RepeatReturn_full ==
    /\ pc = "call"
    /\ comb = "repeat_range"
    /\ ~IsOk(LoopCond)
    /\ res' = IF start <= Len(result) \/ (stop.some /\ Len(result) = stop.v)
              THEN Ok(Vec(result), cur)
              ELSE Err(RepeatLower(start))
    /\ pc' = "done"
    /\ UNCHANGED <<comb, input, p1, p2, map_fn, pred, start, stop, cur, result, r1, r2>>

RepeatReturn ==
    /\ pc = "call"
    /\ comb = "repeat_range"
    /\ ~IsOk(LoopCond)
    /\ res' = IF start <= Len(result) THEN Ok(Vec(result), cur) ELSE Err(RepeatLower(start))
    /\ pc' = "done"
    /\ UNCHANGED <<comb, input, p1, p2, map_fn, pred, start, stop, cur, result, r1, r2>>

Next ==
    \/ Map
    \/ Pair
    \/ Left
    \/ Right
    \/ Predicate
    \/ AndThen
    \/ Not
    \/ NotBut
    \/ EitherFirst
    \/ EitherSecond
    \/ EitherOr
    \/ RepeatTest
    \/ RepeatBody
    \/ RepeatReturn

Spec == Init /\ [][Next]_vars

(* repeat_range alone, on longer inputs. *)
RepeatInit == InitRepeat(RepMaxLen)

RepeatNext == RepeatTest \/ RepeatBody \/ RepeatReturn

RepeatSpec == RepeatInit /\ [][RepeatNext]_vars

(* A running parse keeps running: the loop is ordinary sequential code. *)
RepeatFairSpec == RepeatSpec /\ WF_vars(RepeatNext)

(* ------------------------- claim vocabulary --------------------------- *)
Done == pc = "done"

(* p1 succeeds n times in a row from s; where that leaves the input; the   *)
(* values it yields on the way.                                            *)
RECURSIVE Run(_, _)
Run(s, n) == n = 0 \/ (IsOk(p1[s]) /\ Run(p1[s].rem, n - 1))

RECURSIVE After(_, _)
After(s, n) == IF n = 0 THEN s ELSE After(p1[s].rem, n - 1)

RECURSIVE Yielded(_, _)
Yielded(s, n) == IF n = 0 THEN <<>> ELSE <<p1[s].val>> \o Yielded(p1[s].rem, n - 1)

ExactlyRun(s, n) == Run(s, n) /\ ~IsOk(p1[After(s, n)])

CarriesRemainder(r) == IsErr(r) /\ r.err.kind \in {"Error", "UnexpectedMatch"}

(* What running either came to: the value returned, or the abort. *)
Outcome == IF pc = "panicked" THEN Panic ELSE res

(* ------------------------------- C1 ----------------------------------- *)
(* C1: whenever a combinator's parse fails with an error that carries a    *)
(* remainder (Error(s), UnexpectedMatch(s)), s is the input the combinator *)
(* was given, also when the second parser of a pair / left / right /       *)
(* and_then fails after the first has consumed a prefix.                   *)
C1_NoPartialConsumption ==
    (Done /\ CarriesRemainder(res)) => res.err.s = input

(* ------------------------------- C2 ----------------------------------- *)
(* C2: whenever p1 fails on s, either(p1, p2).parse(s) comes to exactly    *)
(* what p2.parse(s) comes to on the original s: the same value and         *)
(* remainder, the same error, or the same abort.                           *)
C2_Backtracking ==
    (comb = "either" /\ pc \in {"done", "panicked"} /\ ~IsOk(p1[input]))
        => Outcome = p2[input]

C2_Witness ==
    /\ comb = "either"
    /\ Done
    /\ p1[input] = Err(RepeatUpper(1))
    /\ IsOk(res)
    /\ res.rem # input

(* ------------------------------- C3 ----------------------------------- *)
(* C3: repeat_range(p, k, Some(k)): on exactly k matches followed by a     *)
(* failure of p it returns the k values and the remainder after them; on   *)
(* exactly k-1 matches it fails with RepeatLower(k); with k+1 matches      *)
(* available it returns exactly k values and leaves the extra match in the *)
(* remainder.                                                              *)
C3_RepeatBoundary ==
    (Done /\ comb = "repeat_range" /\ stop = Some(start)) =>
        /\ ExactlyRun(input, start)
            => res = Ok(Vec(Yielded(input, start)), After(input, start))
        /\ (start >= 1 /\ ExactlyRun(input, start - 1))
            => res = Err(RepeatLower(start))
        /\ Run(input, start + 1)
            => /\ res = Ok(Vec(Yielded(input, start)), After(input, start))
               /\ IsOk(p1[res.rem])

C3_Witness ==
    /\ Done
    /\ comb = "repeat_range"
    /\ start >= 1
    /\ stop = Some(start)
    /\ Run(input, start + 1)
    /\ After(input, start + 1) # After(input, start)
    /\ IsOk(res)
    /\ Len(res.val.items) = start
    /\ res.rem # input

(* ------------------------------- C4 ----------------------------------- *)
(* C4: a successful parse of any combinator returns a remainder that is a  *)
(* suffix of the input; repeat_range's is the remainder after its last     *)
(* collected application, not's is the input itself.                       *)
C4_RemainderIsSuffix ==
    (Done /\ IsOk(res)) =>
        /\ IsSuffix(res.rem, input)
        /\ comb = "repeat_range"
            => /\ Run(input, Len(result))
               /\ res.rem = After(input, Len(result))
        /\ comb = "not" => res.rem = input

C4_Witness ==
    /\ Done
    /\ comb = "repeat_range"
    /\ IsOk(res)
    /\ Len(result) = 2
    /\ res.rem = <<>>
    /\ Len(input) = 2

(* ------------------------------- C5 ----------------------------------- *)
(* C5: not(p).parse(s) returns ((), s) if and only if p.parse(s) fails,    *)
(* and fails with UnexpectedMatch(s) if and only if p.parse(s) succeeds.   *)
C5_NegativeLookahead ==
    (Done /\ comb = "not") =>
        /\ res = Ok(Unit, input) <=> ~IsOk(p1[input])
        /\ res = Err(UnexpectedMatch(input)) <=> IsOk(p1[input])

C5_Witness ==
    /\ Done
    /\ comb = "not"
    /\ IsOk(p1[input])
    /\ p1[input].rem # input
    /\ res = Err(UnexpectedMatch(input))

(* ------------------------------- C6 ----------------------------------- *)
(* C6 as stated: not_but(p1, p2).parse(s) succeeds exactly when            *)
(* p1.parse(s) fails.                                                      *)
C6_SucceedsIffFirstFails ==
    (Done /\ comb = "not_but") => (IsOk(res) <=> ~IsOk(p1[input]))

(* C6 as amended: not_but(p1, p2).parse(s) succeeds exactly when           *)
(* p1.parse(s) fails and p2.parse(s) succeeds, and then with the value and *)
(* remainder of p2.parse(s).                                               *)
C6_NotBut ==
    (Done /\ comb = "not_but") =>
        /\ IsOk(res) <=> (~IsOk(p1[input]) /\ IsOk(p2[input]))
        /\ IsOk(res) => res = p2[input]

C6_Witness ==
    /\ Done
    /\ comb = "not_but"
    /\ ~IsOk(p1[input])
    /\ IsOk(p2[input])
    /\ p2[input].rem # input
    /\ res = p2[input]

(* ------------------------------- C7 ----------------------------------- *)
(* C7: repeat_range(p, start, stop).parse(input) eventually returns, for   *)
(* every terminating p, also one that succeeds without consuming input,    *)
(* and every start and stop, None included.                                *)
C7_Terminates == <>Done

(* ------------------------------- C8 ----------------------------------- *)
(* C8: in either(p1, p2).parse(s), p2 is run only if p1.parse(s) failed;   *)
(* when p1 succeeds, a p2 that aborts does not affect the parse.           *)
C8_SecondOnlyAfterFailure ==
    comb = "either" =>
        /\ r2 # NoResult => ~IsOk(r1)
        /\ pc = "panicked" => ~IsOk(p1[input])

(* ------------------------------- C9 ----------------------------------- *)
(* C9: with stop = Some(n) the loop never collects more than n values and  *)
(* stops at n values or at p's first failure; the only error repeat_range  *)
(* returns is RepeatLower(start), exactly when fewer than start values     *)
(* were collected, never RepeatUpper; with start <= n and more than n      *)
(* matches available it returns exactly n values.                          *)
C9_UpperBoundIsNoError ==
    comb = "repeat_range" =>
        /\ stop.some => Len(result) <= stop.v
        /\ Done =>
            /\ (stop.some /\ Len(result) = stop.v) \/ ~IsOk(p1[cur])
            /\ IsErr(res) <=> Len(result) < start
            /\ IsErr(res) => res = Err(RepeatLower(start))
            /\ (stop.some /\ start <= stop.v /\ Run(input, stop.v + 1))
                => res = Ok(Vec(Yielded(input, stop.v)), After(input, stop.v))

C9_Witness ==
    /\ Done
    /\ comb = "repeat_range"
    /\ stop.some
    /\ stop.v >= 1
    /\ start <= stop.v
    /\ Run(input, stop.v + 1)
    /\ IsOk(res)
    /\ Len(res.val.items) = stop.v
    /\ IsOk(p1[res.rem])

(* ------------------------------- C10 ---------------------------------- *)
(* C10: with start > n, repeat_range(p, start, Some(n)).parse(input) fails *)
(* with RepeatLower(start) however many matches the input holds.           *)
C10_InvertedBounds ==
    (Done /\ comb = "repeat_range" /\ stop.some /\ start > stop.v)
        => res = Err(RepeatLower(start))

C10_Witness ==
    /\ Done
    /\ comb = "repeat_range"
    /\ stop.some
    /\ stop.v >= 1
    /\ start > stop.v
    /\ Len(result) = stop.v
    /\ Run(input, start)
    /\ res = Err(RepeatLower(start))

====
